---- MODULE Spec2Model ----
(***************************************************************************)
(* Model of the chat-with-gemini request handler (src/unnamed/part_000):   *)
(* one serve() callback per request, interleaving at its awaits, over the  *)
(* shared tables profiles, reward_transactions, messages, conversations.   *)
(* An action is one awaited call together with the synchronous code that   *)
(* follows it up to the next await. The tables hold the rows of one user;  *)
(* the conversation rows are those createNewConversation of the client    *)
(* (src/src/components/ChatApp.tsx) inserts. The response time             *)
(* measurement is left out.                                                *)
(***************************************************************************)
EXTENDS Integers, Sequences, FiniteSets, Bags, TLC

(* ------------------------------ bounds -------------------------------- *)
MaxRequests == 2      \* requests received in one behaviour
MaxTicks == 1         \* clock advances (of TickMs each) in one behaviour
MaxSequence == 3      \* requests of a behaviour that sends one at a time
MaxConversations == 1 \* conversation rows created in one behaviour
MaxFailing == 2       \* completed boosts up to which profiles.update can fail

(* ------------------------- program constants -------------------------- *)
BoostCost == 10
StreakBonus == 5
BasePoints == 1
MsPerDay == 86400000
TitleLen == 50

(* ---------------------- clock and date strings ------------------------ *)
\* Half a day: the granularity at which the wall clock is observed.
TickMs == MsPerDay \div 2

\* A 'YYYY-MM-DD' string is the tuple <<y, m, d>>; null is NoDate.
NoDate == <<>>

\* Days since 1970-01-01 of a proleptic Gregorian date (what
\* new Date('YYYY-MM-DD') resolves to, at UTC midnight).
DaysFromCivil(date) ==
    LET y0 == date[1]
        m == date[2]
        d == date[3]
        y == IF m <= 2 THEN y0 - 1 ELSE y0
        era == y \div 400
        yoe == y - era * 400
        mp == IF m > 2 THEN m - 3 ELSE m + 9
        doy == (153 * mp + 2) \div 5 + d - 1
        doe == yoe * 365 + yoe \div 4 - yoe \div 100 + doy
    IN era * 146097 + doe - 719468

\* The date of a day number (what toISOString().split('T')[0] prints).
CivilFromDays(z0) ==
    LET z == z0 + 719468
        era == z \div 146097
        doe == z - era * 146097
        yoe == (doe - doe \div 1460 + doe \div 36524 - doe \div 146096) \div 365
        doy == doe - (365 * yoe + yoe \div 4 - yoe \div 100)
        mp == (5 * doy + 2) \div 153
        d == doy - (153 * mp + 2) \div 5 + 1
        m == IF mp < 10 THEN mp + 3 ELSE mp - 9
        y == yoe + era * 400
    IN <<IF m <= 2 THEN y + 1 ELSE y, m, d>>

\* Millisecond timestamps are counted from 2024-02-15T00:00:00Z instead of
\* 1970: the handler only ever subtracts two of them, and the shift keeps
\* them within 32-bit integers.
EpochDay == DaysFromCivil(<<2024, 2, 15>>)

\* new Date(s).getTime() for a date-only string s
GetTime(date) == (DaysFromCivil(date) - EpochDay) * MsPerDay

\* new Date(ms).toISOString().split('T')[0]
ISODate(ms) == CivilFromDays(EpochDay + ms \div MsPerDay)

\* 2024-02-29T12:00:00Z
StartMs == 14 * MsPerDay + TickMs

(* ------------------------------ requests ------------------------------ *)
\* Invocations of the handler that can be in flight together
Slots == {1, 2}

\* conversationId of a request that names no conversation (null), and the
\* ids of the conversation rows: row i of the table has id i.
NoConv == 0
ConversationIds == 1..MaxConversations

Msg(role, text, len) == [role |-> role, content |-> [text |-> text, len |-> len]]

\* A first message, and a longer history whose first message exceeds the
\* title length.
FirstMessage == <<Msg("user", "q1", 12)>>
LongHistory ==
    <<Msg("user", "q0", 80), Msg("assistant", "a0", 30), Msg("user", "q2", 7)>>

\* The text of a body that parses as a ChatRequest.
JsonBody == "json"

\* What serve() is called with: the method, whether the body parses as JSON,
\* the ChatRequest fields, and whether an Authorization header is sent.
\* The requests are a boosted first message without a conversation, a plain
\* message of a stored conversation (with and without the header), a body
\* without messages, a body that is not JSON (empty, or the text body),
\* and a CORS preflight.
Requests ==
    [method : {"POST"}, bodyOk : {TRUE}, body : {JsonBody},
     messages : {FirstMessage},
     conversationId : {NoConv}, boost : {TRUE}, authHeader : {TRUE}]
    \cup
    [method : {"POST"}, bodyOk : {TRUE}, body : {JsonBody},
     messages : {LongHistory},
     conversationId : ConversationIds, boost : {FALSE}, authHeader : BOOLEAN]
    \cup
    [method : {"POST"}, bodyOk : {TRUE}, body : {JsonBody},
     messages : {<<>>},
     conversationId : {NoConv}, boost : {TRUE}, authHeader : {TRUE}]
    \cup
    [method : {"POST"}, bodyOk : {FALSE}, body : {"", "not json"},
     messages : {<<>>},
     conversationId : {NoConv}, boost : {FALSE}, authHeader : {FALSE}]
    \cup
    [method : {"OPTIONS"}, bodyOk : {FALSE}, body : {""},
     messages : {<<>>},
     conversationId : {NoConv}, boost : {FALSE}, authHeader : {FALSE}]

NoRequest ==
    [method |-> "", bodyOk |-> FALSE, body |-> "", messages |-> <<>>,
     conversationId |-> NoConv, boost |-> FALSE, authHeader |-> FALSE]

(* ------------------------------- tables ------------------------------- *)
ProfileRow(points, streak, last, total) ==
    [reward_points |-> points, daily_streak |-> streak,
     last_message_date |-> last, total_messages |-> total]

\* Rows the profiles table can hold when a behaviour starts: a profile as
\* created at signup, and profiles left by earlier interactions.
InitProfiles ==
    { ProfileRow(0, 0, NoDate, 0),
      ProfileRow(9, 2, <<2024, 2, 29>>, 4),
      ProfileRow(10, 5, <<2024, 2, 27>>, 7),
      ProfileRow(20, 3, <<2024, 2, 28>>, 10) }

\* The title createNewConversation gives the row it inserts.
NewConversation == [text |-> "New Conversation", len |-> 16, ellipsis |-> FALSE]

(* --------------------------- handler locals --------------------------- *)
NoLocals ==
    [profile |-> ProfileRow(0, 0, NoDate, 0),
     status |-> "", gemini |-> "", aiResponse |-> "", tokensUsed |-> 0,
     computations |-> 0,
     today |-> NoDate, pointsEarned |-> 0, newStreak |-> 0, pointChange |-> 0,
     transactionType |-> "", description |-> <<>>,
     updateError |-> FALSE, transactionError |-> FALSE]

NoResponse ==
    [status |-> 0, body |-> "", error |-> "", details |-> <<>>,
     response |-> "", tokensUsed |-> 0,
     pointsEarned |-> 0, pointsSpent |-> 0,
     newStreak |-> 0, totalPoints |-> 0]

VARIABLES
    now,                  \* Date.now(), in ms since the model epoch
    googleApiKey,         \* Deno.env GOOGLE_AI_API_KEY is set
    profiles,             \* the caller's row of table profiles
    reward_transactions,  \* table reward_transactions, a bag of rows
    messages,             \* table messages, a bag of rows
    conversations,        \* table conversations: the titles of its rows
    client,               \* createNewConversation calls in flight, per await
    received,             \* requests received so far
    pc,                   \* per invocation: the await it is suspended at
    req,                  \* per invocation: the request
    loc,                  \* per invocation: the handler's local constants
    resp,                 \* per invocation: the Response returned
    calls,                \* per invocation: the external calls made, in order
    history               \* the profile at the start, and what completed since

vars == <<now, googleApiKey, profiles, reward_transactions, messages,
          conversations, client, received, pc, req, loc, resp, calls,
          history>>

tables == <<profiles, reward_transactions, messages, conversations>>

Init ==
    /\ now = StartMs
    /\ googleApiKey \in BOOLEAN
    /\ profiles \in InitProfiles
    /\ reward_transactions = EmptyBag
    /\ messages = EmptyBag
    /\ conversations = <<>>
    /\ client = [getUser |-> 0, insert |-> 0]
    /\ received = 0
    /\ pc = [r \in Slots |-> "idle"]
    /\ req = [r \in Slots |-> NoRequest]
    /\ loc = [r \in Slots |-> NoLocals]
    /\ resp = [r \in Slots |-> NoResponse]
    /\ calls = [r \in Slots |-> <<>>]
    /\ history = [initial |-> profiles, completed |-> 0, days |-> {}]

\* The wall clock advances.
Tick ==
    /\ now < StartMs + MaxTicks * TickMs
    /\ now' = now + TickMs
    /\ UNCHANGED <<googleApiKey, tables, client, received, pc, req, loc, resp,
                   calls, history>>

(* ------------------------------ responses ----------------------------- *)
\* new Error(message), and the errors thrown by the runtime: SyntaxError
\* by a json() whose text is not JSON, TypeError by a read of a property of
\* undefined and by a fetch() that rejects.
Error(message) == [name |-> "Error", message |-> message]
SyntaxError(message) == [name |-> "SyntaxError", message |-> message]
TypeError(message) == [name |-> "TypeError", message |-> message]

\* error.toString(): the name of the error's class and its message.
ErrorToString(error) == <<error.name, ": ", error.message>>

\* A catch block that leaves the status of the Response at its default.
ErrorResponseDefaultStatus(error) ==
    [NoResponse EXCEPT !.status = 200, !.body = "error",
                       !.error = error.message,
                       !.details = ErrorToString(error)]

\* The catch block: status 500 with error: error.message and
\* details: error.toString().
ErrorResponse(error) ==
    [NoResponse EXCEPT !.status = 500, !.body = "error",
                       !.error = error.message,
                       !.details = ErrorToString(error)]

\* The CORS preflight reply: a null body with the default status.
PreflightResponse == [NoResponse EXCEPT !.status = 200, !.body = "null"]

\* A success Response whose totalPoints leaves the boost cost out.
SuccessResponseBeforeBoost(l, boost) ==
    [status |-> 200, body |-> "result", error |-> "", details |-> <<>>,
     response |-> l.aiResponse,
     tokensUsed |-> l.tokensUsed,
     pointsEarned |-> l.pointsEarned,
     pointsSpent |-> IF boost THEN BoostCost ELSE 0,
     newStreak |-> l.newStreak,
     totalPoints |-> l.profile.reward_points + l.pointsEarned]

\* The success Response built from the handler's locals.
SuccessResponse(l, boost) ==
    [status |-> 200, body |-> "result", error |-> "", details |-> <<>>,
     response |-> l.aiResponse,
     tokensUsed |-> l.tokensUsed,
     pointsEarned |-> l.pointsEarned,
     pointsSpent |-> IF boost THEN BoostCost ELSE 0,
     newStreak |-> l.newStreak,
     totalPoints |-> l.profile.reward_points + l.pointChange]

\* The error is thrown inside the try block of invocation r.
Throw(r, error) ==
    /\ pc' = [pc EXCEPT ![r] = "done"]
    /\ resp' = [resp EXCEPT ![r] = ErrorResponse(error)]
    /\ UNCHANGED history

Call(r, name) == calls' = [calls EXCEPT ![r] = Append(@, name)]

(* -------------------------- reward computation ------------------------ *)
\* A same-day test that never recognises the same day.
IsNewDayAlways(lastMessageDate, today) == TRUE

IsNewDay(lastMessageDate, today) ==
    lastMessageDate = NoDate \/ lastMessageDate # today

\* A consecutive-day test that accepts any gap of at least one day.
IsConsecutiveDayAtLeast(lastMessageDate, today) ==
    /\ lastMessageDate # NoDate
    /\ GetTime(today) - GetTime(lastMessageDate) >= MsPerDay

IsConsecutiveDay(lastMessageDate, today) ==
    /\ lastMessageDate # NoDate
    /\ GetTime(today) - GetTime(lastMessageDate) = MsPerDay

PointsEarned(p, today) ==
    IF IsNewDay(p.last_message_date, today)
       /\ IsConsecutiveDay(p.last_message_date, today)
    THEN BasePoints + StreakBonus
    ELSE BasePoints

\* A streak that grows with every message, whatever the day.
NewStreakCountsMessages(p, today) == p.daily_streak + 1

\* A streak computation that forgets to reset a broken streak.
NewStreakNoReset(p, today) ==
    IF IsNewDay(p.last_message_date, today)
    THEN IF IsConsecutiveDay(p.last_message_date, today)
         THEN p.daily_streak + 1
         ELSE IF p.last_message_date # NoDate
         THEN p.daily_streak
         ELSE 1
    ELSE p.daily_streak

NewStreak(p, today) ==
    IF IsNewDay(p.last_message_date, today)
    THEN IF IsConsecutiveDay(p.last_message_date, today)
         THEN p.daily_streak + 1
         ELSE IF p.last_message_date # NoDate
         THEN 1
         ELSE 1
    ELSE p.daily_streak

\* A boost that costs what a streak day earns.
PointChangeCheapBoost(pointsEarned, boost) ==
    IF boost THEN pointsEarned - (BasePoints + StreakBonus) ELSE pointsEarned

\* let pointChange = pointsEarned; if (boost) pointChange -= 10
PointChange(pointsEarned, boost) ==
    IF boost THEN pointsEarned - BoostCost ELSE pointsEarned

\* A kind selection that lets the streak bonus take precedence over boost.
TransactionTypeStreakFirst(pointsEarned, boost) ==
    IF pointsEarned > 1 THEN "streak"
    ELSE IF boost THEN "boost" ELSE "message"

TransactionType(pointsEarned, boost) ==
    IF boost THEN "boost"
    ELSE IF pointsEarned > 1 THEN "streak" ELSE "message"

\* A description that prints the streak length before the increment.
DescriptionOldStreak(pointsEarned, newStreak, boost) ==
    IF boost THEN <<"Boost used for priority response">>
    ELSE IF pointsEarned > 1
         THEN <<"Daily streak bonus (", newStreak - 1, " days)">>
         ELSE <<"Message sent">>

\* The description text, as the pieces of the template string.
Description(pointsEarned, newStreak, boost) ==
    IF boost THEN <<"Boost used for priority response">>
    ELSE IF pointsEarned > 1
         THEN <<"Daily streak bonus (", newStreak, " days)">>
         ELSE <<"Message sent">>

\* An update that forgets to count the message.
ProfileUpdateNoCount(l) ==
    ProfileRow(l.profile.reward_points + l.pointChange, l.newStreak,
               l.today, l.profile.total_messages)

\* The object passed to profiles.update()
ProfileUpdate(l) ==
    ProfileRow(l.profile.reward_points + l.pointChange, l.newStreak,
               l.today, l.profile.total_messages + 1)

\* A ledger row that records the points earned, before the boost cost.
TransactionRowEarned(l) ==
    [points_change |-> l.pointsEarned,
     transaction_type |-> l.transactionType,
     description |-> l.description]

\* The object passed to reward_transactions.insert()
TransactionRow(l) ==
    [points_change |-> l.pointChange,
     transaction_type |-> l.transactionType,
     description |-> l.description]

\* The conversation title made from the first message of the request.
Title(msgs) ==
    [text |-> msgs[1].content.text,
     len |-> IF msgs[1].content.len < TitleLen THEN msgs[1].content.len
             ELSE TitleLen,
     ellipsis |-> msgs[1].content.len > TitleLen]

(* ------------------------------- handler ------------------------------ *)
\* serve() is invoked (in the first slot that has no invocation in
\* flight): the preflight reply, or the call of req.json().
Serve(r, request) ==
    /\ pc[r] \in {"idle", "done"}
    /\ \A q \in Slots : q < r => pc[q] \notin {"idle", "done"}
    /\ req' = [req EXCEPT ![r] = request]
    /\ loc' = [loc EXCEPT ![r] = NoLocals]
    /\ calls' = [calls EXCEPT ![r] = <<>>]
    /\ IF request.method = "OPTIONS"
       THEN /\ pc' = [pc EXCEPT ![r] = "done"]
            /\ resp' = [resp EXCEPT ![r] = PreflightResponse]
            /\ UNCHANGED history
       ELSE /\ pc' = [pc EXCEPT ![r] = "json"]
            /\ resp' = [resp EXCEPT ![r] = NoResponse]
            /\ UNCHANGED history
    /\ UNCHANGED <<now, googleApiKey, client, tables>>

\* The message of the SyntaxError of JSON.parse on a text that is not JSON.
JsonParseError(text) ==
    IF text = "" THEN "Unexpected end of JSON input"
    ELSE IF text = "not json"
    THEN "Unexpected token 'o', \"not json\" is not valid JSON"
    ELSE "Unexpected token '<', \"<html>\" is not valid JSON"

\* req.json() resolves or rejects; the messages check and the
\* Authorization header check follow, up to the call of auth.getUser.
ReadJson(r) ==
    /\ pc[r] = "json"
    /\ IF ~req[r].bodyOk
       THEN Throw(r, SyntaxError(JsonParseError(req[r].body)))
       ELSE IF Len(req[r].messages) = 0
       THEN Throw(r, Error("No messages provided"))
       ELSE IF ~req[r].authHeader
       THEN Throw(r, Error("No authorization header"))
       ELSE /\ pc' = [pc EXCEPT ![r] = "getUser"]
            /\ UNCHANGED <<resp, history>>
    /\ UNCHANGED <<now, googleApiKey, client, tables, received, req, loc, calls>>

\* The handler serves every page of the user. A page sends its
\* currentConversationId (ChatApp passes it to ChatInterface): null from
\* its load on, the id of a stored row once createNewConversation has set
\* it or handleConversationSelect has picked a row of the sidebar. What
\* each page shows is not tracked: a request names no conversation or any
\* stored row.
Sendable(request) ==
    request.conversationId \in {NoConv} \cup (1..Len(conversations))

\* A client sends a request, one of MaxRequests in a behaviour.
Receive(r, request) ==
    /\ Sendable(request)
    /\ received < MaxRequests
    /\ received' = received + 1
    /\ Serve(r, request)

\* supabase.auth.getUser(token) resolves.
GetUser(r, ok) ==
    /\ pc[r] = "getUser"
    /\ Call(r, "auth.getUser")
    /\ IF ~ok
       THEN Throw(r, Error("Authentication failed"))
       ELSE /\ pc' = [pc EXCEPT ![r] = "selectProfile"]
            /\ UNCHANGED <<resp, history>>
    /\ UNCHANGED <<now, googleApiKey, client, tables, received, req, loc>>

\* A balance check that lets any positive balance boost.
InsufficientPointsAnyBalance(boost, p) == boost /\ p.reward_points <= 0

\* A balance check that is off by one.
InsufficientPointsOffByOne(boost, p) == boost /\ p.reward_points < BoostCost - 1

\* if (boost && profile.reward_points < 10)
InsufficientPoints(boost, p) == boost /\ p.reward_points < BoostCost

\* A handler that charges the boost when it checks the balance.
SelectProfileChargeFirst(r, ok) ==
    /\ pc[r] = "selectProfile"
    /\ IF ~ok
       THEN /\ Throw(r, Error("Failed to fetch user profile"))
            /\ Call(r, "profiles.select")
            /\ UNCHANGED <<loc, profiles>>
       ELSE IF InsufficientPoints(req[r].boost, profiles)
       THEN /\ Throw(r, Error("Insufficient points for boost. Need 10 points."))
            /\ Call(r, "profiles.select")
            /\ loc' = [loc EXCEPT ![r].profile = profiles]
            /\ UNCHANGED profiles
       ELSE /\ pc' = [pc EXCEPT ![r] = "fetch"]
            /\ calls' = [calls EXCEPT
                   ![r] = IF req[r].boost
                          THEN @ \o <<"profiles.select", "profiles.update">>
                          ELSE Append(@, "profiles.select")]
            /\ profiles' = IF req[r].boost
                           THEN [profiles EXCEPT !.reward_points = @ - BoostCost]
                           ELSE profiles
            /\ loc' = [loc EXCEPT ![r].profile = profiles']
            /\ UNCHANGED <<resp, history>>
    /\ UNCHANGED <<now, googleApiKey, client, reward_transactions, messages,
                   conversations, received, req>>

\* The profiles select resolves; the boost balance check and the API key
\* check follow, up to the fetch of the Gemini API.
SelectProfile(r, ok) ==
    /\ pc[r] = "selectProfile"
    /\ Call(r, "profiles.select")
    /\ IF ~ok
       THEN /\ Throw(r, Error("Failed to fetch user profile"))
            /\ UNCHANGED loc
       ELSE IF InsufficientPoints(req[r].boost, profiles)
       THEN /\ Throw(r, Error("Insufficient points for boost. Need 10 points."))
            /\ loc' = [loc EXCEPT ![r].profile = profiles]
       ELSE IF ~googleApiKey
       THEN /\ Throw(r, Error("Google AI API key not configured"))
            /\ loc' = [loc EXCEPT ![r].profile = profiles]
       ELSE /\ pc' = [pc EXCEPT ![r] = "fetch"]
            /\ loc' = [loc EXCEPT ![r].profile = profiles]
            /\ UNCHANGED <<resp, history>>
    /\ UNCHANGED <<now, googleApiKey, client, tables, received, req>>

\* How the fetch of the Gemini API ends: it rejects, or it resolves with
\* an HTTP status.
FetchOutcomes == {"reject", "http200", "http500", "http503"}

\* geminiResponse.status
Status(outcome) ==
    IF outcome = "http500" THEN "500"
    ELSE IF outcome = "http503" THEN "503" ELSE "200"

\* What the body of an answer with status 200 can be: an answer with a
\* candidate (with and without usageMetadata), an answer without
\* candidates, an answer whose candidate has no content, a text that is
\* not JSON.
GeminiOutcomes == {"ok", "okNoUsage", "noCandidates", "noContent", "notJson"}

\* A check that takes every status but 500 for a success.
GeminiFailedOn500Only(status) == status = "500"

\* !geminiResponse.ok
GeminiFailed(status) == status # "200"

\* The fetch resolves or rejects, up to the read of the answer's body.
Fetch(r, outcome) ==
    /\ pc[r] = "fetch"
    /\ Call(r, "gemini.fetch")
    /\ IF outcome = "reject"
       THEN /\ Throw(r, TypeError("error sending request"))
            /\ loc' = [loc EXCEPT ![r].gemini = outcome]
       ELSE /\ pc' = [pc EXCEPT ![r] = "geminiBody"]
            /\ loc' = [loc EXCEPT ![r].status = Status(outcome)]
            /\ UNCHANGED <<resp, history>>
    /\ UNCHANGED <<now, googleApiKey, client, tables, received, req>>

\* geminiResponse.text() or geminiResponse.json() resolves (or json()
\* rejects); on success the candidates are read and the points and the
\* streak are computed, up to the call of profiles.update.
ReadBody(r, body) ==
    /\ pc[r] = "geminiBody"
    /\ IF GeminiFailed(loc[r].status)
       THEN /\ Throw(r, Error("Gemini API error: " \o loc[r].status))
            /\ loc' = [loc EXCEPT ![r].gemini = "httpError"]
       ELSE IF body = "notJson"
       THEN /\ Throw(r, SyntaxError(JsonParseError("<html>")))
            /\ loc' = [loc EXCEPT ![r].gemini = body]
       ELSE IF body = "noCandidates"
       THEN /\ Throw(r, Error("No response from Gemini API"))
            /\ loc' = [loc EXCEPT ![r].gemini = body]
       ELSE IF body = "noContent"
       THEN /\ Throw(r, TypeError(
                   "Cannot read properties of undefined (reading 'parts')"))
            /\ loc' = [loc EXCEPT ![r].gemini = body]
       ELSE LET today == ISODate(now)
                p == loc[r].profile
                pointsEarned == PointsEarned(p, today)
            IN /\ loc' = [loc EXCEPT
                     ![r].gemini = "ok",
                     ![r].aiResponse = "reply",
                     ![r].tokensUsed = IF body = "ok" THEN 42 ELSE 0,
                     ![r].computations = @ + 1,
                     ![r].today = today,
                     ![r].pointsEarned = pointsEarned,
                     ![r].newStreak = NewStreak(p, today),
                     ![r].pointChange = PointChange(pointsEarned, req[r].boost)]
               /\ pc' = [pc EXCEPT ![r] = "updateProfile"]
               /\ UNCHANGED <<resp, history>>
    /\ UNCHANGED <<now, googleApiKey, client, tables, received, req, calls>>

\* return new Response(JSON.stringify({...})) at the end of the try block
Respond(r, l) ==
    /\ pc' = [pc EXCEPT ![r] = "done"]
    /\ resp' = [resp EXCEPT ![r] = SuccessResponse(l, req[r].boost)]
    /\ history' = [history EXCEPT !.completed = @ + 1,
                                  !.days = @ \cup {l.today}]

\* A handler that surfaces a failed profile or ledger write.
StoreOrRespondThrowing(r, l) ==
    IF l.updateError \/ l.transactionError
    THEN Throw(r, Error("Failed to record rewards"))
    ELSE IF req[r].conversationId # NoConv
    THEN /\ pc' = [pc EXCEPT ![r] = "insertUserMessage"]
         /\ UNCHANGED <<resp, history>>
    ELSE Respond(r, l)

\* The code after the reward transaction block: store the messages when a
\* conversationId was given, otherwise answer.
StoreOrRespond(r, l) ==
    IF req[r].conversationId # NoConv
    THEN /\ pc' = [pc EXCEPT ![r] = "insertUserMessage"]
         /\ UNCHANGED <<resp, history>>
    ELSE Respond(r, l)

\* The code after profiles.update has resolved: with a pointChange other
\* than 0 the kind and the description of the ledger row are derived and
\* reward_transactions.insert is called; l are the locals after the update.
AfterUpdate(r, l) ==
    IF l.pointChange # 0
    THEN /\ loc' = [loc EXCEPT
                ![r] = [l EXCEPT
                    !.transactionType =
                        TransactionType(l.pointsEarned, req[r].boost),
                    !.description =
                        Description(l.pointsEarned, l.newStreak, req[r].boost)]]
         /\ pc' = [pc EXCEPT ![r] = "insertTransaction"]
         /\ UNCHANGED <<resp, history>>
    ELSE /\ loc' = [loc EXCEPT ![r] = l]
         /\ StoreOrRespond(r, l)

\* A handler that applies its changes to the stored row (an atomic
\* increment) in place of writing values computed from its snapshot.
UpdateProfileIncrementing(r, ok) ==
    /\ pc[r] = "updateProfile"
    /\ Call(r, "profiles.update")
    /\ profiles' = IF ok
                   THEN [profiles EXCEPT
                            !.reward_points = @ + loc[r].pointChange,
                            !.daily_streak = loc[r].newStreak,
                            !.last_message_date = loc[r].today,
                            !.total_messages = @ + 1]
                   ELSE profiles
    /\ AfterUpdate(r, [loc[r] EXCEPT !.updateError = ~ok])
    /\ UNCHANGED <<now, googleApiKey, client, reward_transactions, messages,
                   conversations, received, req>>

\* A handler that sends a failed profiles.update a second time.
UpdateProfileRetrying(r, ok) ==
    /\ pc[r] = "updateProfile"
    /\ Call(r, "profiles.update")
    /\ profiles' = IF ok THEN ProfileUpdate(loc[r]) ELSE profiles
    /\ IF ~ok /\ ~loc[r].updateError
       THEN /\ loc' = [loc EXCEPT ![r].updateError = TRUE]
            /\ UNCHANGED <<pc, resp, history>>
       ELSE AfterUpdate(r, [loc[r] EXCEPT !.updateError = ~ok])
    /\ UNCHANGED <<now, googleApiKey, client, reward_transactions, messages,
                   conversations, received, req>>

\* profiles.update resolves; its error is only logged. The kind and the
\* description of the ledger row are derived next (AfterUpdate).
UpdateProfile(r, ok) ==
    /\ pc[r] = "updateProfile"
    /\ Call(r, "profiles.update")
    /\ profiles' = IF ok THEN ProfileUpdate(loc[r]) ELSE profiles
    /\ AfterUpdate(r, [loc[r] EXCEPT !.updateError = ~ok])
    /\ UNCHANGED <<now, googleApiKey, client, reward_transactions, messages,
                   conversations, received, req>>

\* reward_transactions.insert resolves; its error is only logged.
InsertTransaction(r, ok) ==
    /\ pc[r] = "insertTransaction"
    /\ Call(r, "reward_transactions.insert")
    /\ reward_transactions' =
           IF ok THEN reward_transactions (+) SetToBag({TransactionRow(loc[r])})
           ELSE reward_transactions
    /\ loc' = [loc EXCEPT ![r].transactionError = ~ok]
    /\ StoreOrRespond(r, loc'[r])
    /\ UNCHANGED <<now, googleApiKey, client, profiles, messages,
                   conversations, received, req>>

\* The row of the last message of the request.
UserMessageRow(r) ==
    [conversation_id |-> req[r].conversationId,
     content |-> req[r].messages[Len(req[r].messages)].content.text,
     role |-> "user", tokens_used |-> 0]

\* The row of the assistant's reply.
AiMessageRow(r) ==
    [conversation_id |-> req[r].conversationId,
     content |-> loc[r].aiResponse,
     role |-> "assistant", tokens_used |-> loc[r].tokensUsed]

\* messages.insert of the last message of the request resolves; its result
\* is not read: after an error no row is stored and the handler goes on.
InsertUserMessage(r, ok) ==
    /\ pc[r] = "insertUserMessage"
    /\ Call(r, "messages.insert")
    /\ messages' = IF ok THEN messages (+) SetToBag({UserMessageRow(r)})
                   ELSE messages
    /\ pc' = [pc EXCEPT ![r] = "insertAiMessage"]
    /\ UNCHANGED <<now, googleApiKey, client, profiles, reward_transactions,
                   conversations, received, req, loc, resp, history>>

\* messages.insert of the assistant's reply resolves; its result is not
\* read either.
InsertAiMessage(r, ok) ==
    /\ pc[r] = "insertAiMessage"
    /\ Call(r, "messages.insert")
    /\ messages' = IF ok THEN messages (+) SetToBag({AiMessageRow(r)})
                   ELSE messages
    /\ pc' = [pc EXCEPT ![r] = "selectMessages"]
    /\ UNCHANGED <<now, googleApiKey, client, profiles, reward_transactions,
                   conversations, received, req, loc, resp, history>>

\* The rows of messages with conversation_id = id.
MessageCount(id) ==
    LET rows == {m \in BagToSet(messages) : m.conversation_id = id}
    IN BagCardinality([m \in rows |-> messages[m]])

\* The messages select resolves: the title is updated when the conversation
\* holds at most two messages; when it holds more, or the select failed
\* (data null), the handler answers.
SelectMessages(r, ok) ==
    /\ pc[r] = "selectMessages"
    /\ Call(r, "messages.select")
    /\ IF ok /\ MessageCount(req[r].conversationId) <= 2
       THEN /\ pc' = [pc EXCEPT ![r] = "updateTitle"]
            /\ UNCHANGED <<resp, history>>
       ELSE Respond(r, loc[r])
    /\ UNCHANGED <<now, googleApiKey, client, tables, received, req, loc>>

\* conversations.update resolves, and the handler answers; the result of
\* the update is not read: after an error the title stays.
UpdateTitle(r, ok) ==
    /\ pc[r] = "updateTitle"
    /\ Call(r, "conversations.update")
    /\ conversations' =
           IF ok
           THEN [conversations EXCEPT
                    ![req[r].conversationId] = Title(req[r].messages)]
           ELSE conversations
    /\ Respond(r, loc[r])
    /\ UNCHANGED <<now, googleApiKey, client, profiles, reward_transactions,
                   messages, received, req, loc>>

\* The answers enumerated for invocation r: the answer without
\* usageMetadata is tried on the requests that store no messages.
AnswersFor(r) ==
    IF req[r].conversationId = NoConv
    THEN GeminiOutcomes
    ELSE GeminiOutcomes \ {"okNoUsage"}

\* The client calls createNewConversation (ChatApp.tsx), which runs up
\* to its await of supabase.auth.getUser(); the rows created in one
\* behaviour, those of the calls in flight included, are MaxConversations
\* at most.
CreateNewConversation ==
    /\ Len(conversations) + client.getUser + client.insert < MaxConversations
    /\ client' = [client EXCEPT !.getUser = @ + 1]
    /\ UNCHANGED <<now, googleApiKey, tables, received, pc, req, loc, resp,
                   calls, history>>

\* getUser of a createNewConversation call resolves: without a user the
\* function returns, with one it calls the insert of the row.
ClientGetUser(user) ==
    /\ client.getUser > 0
    /\ client' = [client EXCEPT !.getUser = @ - 1,
                                !.insert = IF user THEN @ + 1 ELSE @]
    /\ UNCHANGED <<now, googleApiKey, tables, received, pc, req, loc, resp,
                   calls, history>>

\* The database runs the insert of a createNewConversation call: the row
\* is stored with the title "New Conversation", or the insert fails and
\* nothing is stored. What the page does when the answer arrives
\* (setCurrentConversationId, a toast) changes only which stored row that
\* page names in its requests, which Sendable leaves open.
ClientInsert(ok) ==
    /\ client.insert > 0
    /\ client' = [client EXCEPT !.insert = @ - 1]
    /\ conversations' = IF ok THEN Append(conversations, NewConversation)
                        ELSE conversations
    /\ UNCHANGED <<now, googleApiKey, profiles, reward_transactions, messages,
                   received, pc, req, loc, resp, calls, history>>

Next ==
    \/ Tick
    \/ CreateNewConversation
    \/ \E user \in BOOLEAN : ClientGetUser(user)
    \/ \E ok \in BOOLEAN : ClientInsert(ok)
    \/ \E r \in Slots, request \in Requests : Receive(r, request)
    \/ \E r \in Slots : ReadJson(r)
    \/ \E r \in Slots, ok \in BOOLEAN : GetUser(r, ok)
    \/ \E r \in Slots, ok \in BOOLEAN : SelectProfile(r, ok)
    \/ \E r \in Slots, outcome \in FetchOutcomes : Fetch(r, outcome)
    \/ \E r \in Slots : \E body \in AnswersFor(r) : ReadBody(r, body)
    \/ \E r \in Slots, ok \in BOOLEAN : UpdateProfile(r, ok)
    \/ \E r \in Slots, ok \in BOOLEAN : InsertTransaction(r, ok)
    \/ \E r \in Slots, ok \in BOOLEAN : InsertUserMessage(r, ok)
    \/ \E r \in Slots, ok \in BOOLEAN : InsertAiMessage(r, ok)
    \/ \E r \in Slots, ok \in BOOLEAN : SelectMessages(r, ok)
    \/ \E r \in Slots, ok \in BOOLEAN : UpdateTitle(r, ok)

Spec == Init /\ [][Next]_vars

(* ------------------------- repeated boosting -------------------------- *)
\* The boosted request of Requests.
BoostRequest ==
    [method |-> "POST", bodyOk |-> TRUE, body |-> JsonBody,
     messages |-> FirstMessage,
     conversationId |-> NoConv, boost |-> TRUE, authHeader |-> TRUE]

\* The client boosts once more, any number of times in a behaviour.
BoostAgain(r) ==
    /\ Serve(r, BoostRequest)
    /\ UNCHANGED received

\* A user who only ever boosts, one request after another or two at a
\* time: the balance is never replenished by an interaction without boost.
\* Every call can fail; profiles.update, whose failure leaves the balance
\* as it is, fails only while fewer than MaxFailing interactions have
\* completed.
BoostNext ==
    \/ Tick
    \/ \E r \in Slots : BoostAgain(r)
    \/ \E r \in Slots : ReadJson(r)
    \/ \E r \in Slots, ok \in BOOLEAN : GetUser(r, ok)
    \/ \E r \in Slots, ok \in BOOLEAN : SelectProfile(r, ok)
    \/ \E r \in Slots, outcome \in FetchOutcomes : Fetch(r, outcome)
    \/ \E r \in Slots, body \in GeminiOutcomes : ReadBody(r, body)
    \/ \E r \in Slots, ok \in BOOLEAN :
           /\ ok \/ history.completed < MaxFailing
           /\ UpdateProfile(r, ok)
    \/ \E r \in Slots, ok \in BOOLEAN : InsertTransaction(r, ok)

BoostSpec == Init /\ [][BoostNext]_vars

(* ----------------------- one request at a time ------------------------ *)
\* No invocation is in flight.
Quiescent == \A r \in Slots : pc[r] \in {"idle", "done"}

\* The client sends a request when the previous one has been answered.
SeqReceive(request) ==
    /\ Quiescent
    /\ Sendable(request)
    /\ received < MaxSequence
    /\ received' = received + 1
    /\ Serve(1, request)

\* Interactions of one user that run strictly one after another, with
\* profiles.update and reward_transactions.insert always succeeding.
SeqNext ==
    \/ Tick
    \/ CreateNewConversation
    \/ \E user \in BOOLEAN : ClientGetUser(user)
    \/ \E ok \in BOOLEAN : ClientInsert(ok)
    \/ \E request \in Requests : SeqReceive(request)
    \/ ReadJson(1)
    \/ \E ok \in BOOLEAN : GetUser(1, ok)
    \/ \E ok \in BOOLEAN : SelectProfile(1, ok)
    \/ \E outcome \in FetchOutcomes : Fetch(1, outcome)
    \/ \E body \in GeminiOutcomes : ReadBody(1, body)
    \/ UpdateProfile(1, TRUE)
    \/ InsertTransaction(1, TRUE)
    \/ \E ok \in BOOLEAN : InsertUserMessage(1, ok)
    \/ \E ok \in BOOLEAN : InsertAiMessage(1, ok)
    \/ \E ok \in BOOLEAN : SelectMessages(1, ok)
    \/ \E ok \in BOOLEAN : UpdateTitle(1, ok)

SeqSpec == Init /\ [][SeqNext]_vars

(* ============================ properties ============================== *)
\* The profile was loaded by invocation r.
ProfileLoaded(r) ==
    /\ Len(calls[r]) >= 2
    /\ resp[r].error # "Failed to fetch user profile"

\* Invocation r got an answer from the LLM and computed its rewards.
Computed(r) == loc[r].gemini = "ok"

\* Invocation r returned the assistant's reply.
Completed(r) == pc[r] = "done" /\ Computed(r)

\* This step is invocation r's profiles.update, and it succeeded.
Updates(r) ==
    /\ pc[r] = "updateProfile"
    /\ pc'[r] # "updateProfile"
    /\ ~loc'[r].updateError

\* The Gregorian calendar, by its rules.
IsLeapYear(y) == (y % 4 = 0 /\ y % 100 # 0) \/ y % 400 = 0

DaysInMonth(y, m) ==
    IF m = 2 THEN (IF IsLeapYear(y) THEN 29 ELSE 28)
    ELSE IF m \in {4, 6, 9, 11} THEN 30 ELSE 31

NextCalendarDay(date) ==
    IF date[3] < DaysInMonth(date[1], date[2])
    THEN <<date[1], date[2], date[3] + 1>>
    ELSE IF date[2] < 12 THEN <<date[1], date[2] + 1, 1>>
    ELSE <<date[1] + 1, 1, 1>>

OneDayBefore(last, today) == last # NoDate /\ NextCalendarDay(last) = today

NewDayNotConsecutive(last, today) ==
    \/ last = NoDate
    \/ last # today /\ NextCalendarDay(last) # today

(* ---- C1 ---- *)
C1_Inv ==
    \A r \in Slots :
        (ProfileLoaded(r) /\ req[r].boost /\ loc[r].profile.reward_points < 10)
        => /\ pc[r] = "done"
           /\ resp[r].status = 500
           /\ resp[r].body = "error"
           /\ resp[r].error = "Insufficient points for boost. Need 10 points."
           /\ calls[r] = <<"auth.getUser", "profiles.select">>

C1_Step ==
    \A r \in Slots :
        (/\ pc[r] = "selectProfile"
         /\ pc'[r] # "selectProfile"
         /\ req[r].boost
         /\ resp'[r].error # "Failed to fetch user profile"
         /\ loc'[r].profile.reward_points < 10)
        => UNCHANGED tables

\* C1: a request with boost=true whose loaded profile has reward_points < 10
\* is answered with the insufficient-points error, and on that path the
\* invocation has made no LLM call, no profiles.update, no
\* reward_transactions.insert and no messages.insert: the rejecting step
\* leaves every table unchanged and the invocation makes no later call.
C1_BoostRejectedWithoutEffects == []C1_Inv /\ [][C1_Step]_vars

C1_Witness ==
    \E r \in Slots :
        /\ pc[r] = "done"
        /\ req[r].boost
        /\ loc[r].profile.reward_points = 9
        /\ resp[r].error = "Insufficient points for boost. Need 10 points."

(* ---- C2 ---- *)
C2_Inv ==
    \A r \in Slots :
        Computed(r) =>
            LET l == loc[r]
                last == l.profile.last_message_date
            IN /\ OneDayBefore(last, l.today)
                   => /\ l.newStreak = l.profile.daily_streak + 1
                      /\ l.pointsEarned = 6
                      /\ pc[r] = "done" => /\ resp[r].pointsEarned = 6
                                           /\ resp[r].newStreak = l.newStreak
               /\ ~OneDayBefore(last, l.today) => l.pointsEarned = 1
               /\ IsConsecutiveDay(last, l.today) <=> OneDayBefore(last, l.today)

C2_Step ==
    \A r \in Slots :
        (Updates(r) /\ OneDayBefore(loc[r].profile.last_message_date, loc[r].today))
        => profiles'.daily_streak = loc[r].profile.daily_streak + 1

\* C2: when the profile's last_message_date is present and is the calendar
\* day before today, the interaction computes, returns and stores
\* daily_streak = old daily_streak + 1 with pointsEarned = 6; and the
\* handler's consecutive-day test holds for that gap and for no other.
C2_ConsecutiveDayStreak == []C2_Inv /\ [][C2_Step]_vars

C2_Witness ==
    \E r \in Slots :
        /\ Completed(r)
        /\ ~loc[r].updateError
        /\ loc[r].profile.last_message_date = <<2024, 2, 29>>
        /\ loc[r].today = <<2024, 3, 1>>
        /\ resp[r].pointsEarned = 6
        /\ profiles.daily_streak = loc[r].profile.daily_streak + 1

(* ---- C3 ---- *)
C3_Inv ==
    \A r \in Slots :
        (Computed(r)
         /\ NewDayNotConsecutive(loc[r].profile.last_message_date, loc[r].today))
        => /\ loc[r].newStreak = 1
           /\ loc[r].pointsEarned = 1
           /\ pc[r] = "done" => /\ resp[r].newStreak = 1
                                /\ resp[r].pointsEarned = 1

C3_Step ==
    \A r \in Slots :
        (Updates(r)
         /\ NewDayNotConsecutive(loc[r].profile.last_message_date, loc[r].today))
        => profiles'.daily_streak = 1

\* C3: when it is a new day but not a consecutive one (last_message_date
\* absent, or present and neither today nor the day before today), the
\* interaction computes, returns and stores daily_streak = 1 whatever the
\* old value, with pointsEarned = 1.
C3_BrokenStreakResets == []C3_Inv /\ [][C3_Step]_vars

C3_Witness ==
    \E r \in Slots :
        /\ Completed(r)
        /\ ~loc[r].updateError
        /\ loc[r].profile.daily_streak = 5
        /\ loc[r].profile.last_message_date = <<2024, 2, 27>>
        /\ resp[r].newStreak = 1
        /\ resp[r].pointsEarned = 1
        /\ profiles.daily_streak = 1

(* ---- C4 ---- *)
C4_Inv ==
    \A r \in Slots :
        (Computed(r) /\ loc[r].profile.last_message_date = loc[r].today)
        => /\ loc[r].newStreak = loc[r].profile.daily_streak
           /\ loc[r].pointsEarned = 1
           /\ pc[r] = "done" => /\ resp[r].newStreak = loc[r].profile.daily_streak
                                /\ resp[r].pointsEarned = 1

C4_Step ==
    \A r \in Slots :
        (Updates(r) /\ loc[r].profile.last_message_date = loc[r].today)
        => /\ profiles'.daily_streak = loc[r].profile.daily_streak
           /\ loc[r].profile = profiles
                  => /\ profiles'.daily_streak = profiles.daily_streak
                     /\ profiles'.last_message_date = profiles.last_message_date
                     /\ profiles'.total_messages = profiles.total_messages + 1

\* C4: when the profile's last_message_date is today, the interaction
\* computes, returns and stores the old daily_streak with pointsEarned = 1;
\* so an interaction that follows another on the same day leaves
\* daily_streak and last_message_date as they were and only changes
\* total_messages and reward_points.
C4_SameDayKeepsStreak == []C4_Inv /\ [][C4_Step]_vars

C4_Witness ==
    \E r \in Slots :
        /\ Completed(r)
        /\ ~loc[r].updateError
        /\ loc[r].profile = ProfileRow(9, 2, <<2024, 2, 29>>, 4)
        /\ loc[r].today = <<2024, 2, 29>>
        /\ profiles = ProfileRow(10, 2, <<2024, 2, 29>>, 5)

\* This step is invocation r's profiles.update, failed or not.
TriesUpdate(r) == pc[r] = "updateProfile" /\ pc'[r] # "updateProfile"

\* This step is invocation r's reward_transactions.insert, failed or not.
TriesInsert(r) == pc[r] = "insertTransaction" /\ pc'[r] # "insertTransaction"

\* This step is invocation r's reward_transactions.insert, and it succeeded.
Inserts(r) == TriesInsert(r) /\ ~loc'[r].transactionError

\* The step adds exactly the row to the ledger.
Recorded(row) == reward_transactions' = reward_transactions (+) SetToBag({row})

InLedger(row) == CopiesIn(row, reward_transactions) > 0

(* ---- C5 ---- *)
C5_Inv ==
    \A r \in Slots :
        (Computed(r) /\ req[r].boost)
        => /\ loc[r].profile.reward_points >= 10
           /\ ~OneDayBefore(loc[r].profile.last_message_date, loc[r].today)
                  => loc[r].pointChange = -9

C5_Step ==
    \A r \in Slots :
        (Inserts(r) /\ req[r].boost)
        => \E row \in BagToSet(reward_transactions') :
               /\ Recorded(row)
               /\ row.transaction_type = "boost"
               /\ row.points_change = loc[r].pointChange
               /\ row.points_change \in {-9, -4}

\* C5: an interaction with boost=true that got its reply had
\* reward_points >= 10, and the ledger row it records has kind "boost"
\* whatever the net delta, also on a streak-bonus day (-4); on a day without
\* the streak bonus its net delta is -9.
C5_BoostKind == []C5_Inv /\ [][C5_Step]_vars

C5_Witness ==
    /\ InLedger([points_change |-> -4, transaction_type |-> "boost",
                 description |-> <<"Boost used for priority response">>])
    /\ InLedger([points_change |-> -9, transaction_type |-> "boost",
                 description |-> <<"Boost used for priority response">>])

(* ---- C6 ---- *)
C6_Step ==
    /\ reward_transactions' # reward_transactions
           => \E r \in Slots : Inserts(r) /\ loc[r].pointChange # 0
    /\ \A r \in Slots :
           Inserts(r)
           => \E row \in BagToSet(reward_transactions') :
                  /\ Recorded(row)
                  /\ row.points_change
                         = loc[r].pointsEarned - (IF req[r].boost THEN 10 ELSE 0)
                  /\ row.points_change # 0
                  /\ ~req[r].boost
                         => IF loc[r].pointsEarned > 1
                            THEN /\ row.transaction_type = "streak"
                                 /\ Len(row.description) = 3
                                 /\ row.description[2] = loc[r].newStreak
                            ELSE row.transaction_type = "message"
    /\ \A r \in Slots :
           (/\ loc[r].profile = ProfileRow(20, 3, <<2024, 2, 28>>, 10)
            /\ loc[r].today = <<2024, 2, 29>>
            /\ ~req[r].boost)
           => /\ Updates(r) => profiles' = ProfileRow(26, 4, <<2024, 2, 29>>, 11)
              /\ Inserts(r)
                     => Recorded([points_change |-> 6,
                                  transaction_type |-> "streak",
                                  description |->
                                      <<"Daily streak bonus (", 4, " days)">>])

\* C6: the ledger only grows by a reward_transactions.insert of an
\* invocation whose net delta is non-zero; the row carries that net delta,
\* and without boost it has kind "streak" with the new streak length in the
\* description when pointsEarned > 1 and kind "message" otherwise. The
\* profile {20, 3, yesterday, 10} without boost gives {26, 4, today, 11} and
\* a "streak" row of 6 points whose description contains 4.
C6_TransactionRow == [][C6_Step]_vars

C6_Witness ==
    /\ profiles = ProfileRow(26, 4, <<2024, 2, 29>>, 11)
    /\ InLedger([points_change |-> 6, transaction_type |-> "streak",
                 description |-> <<"Daily streak bonus (", 4, " days)">>])

(* ---- C7 ---- *)
\* C7 as stated: every interaction that gets to answer changes the stored
\* profile row by exactly reward_points + netDelta, last_message_date =
\* today, total_messages + 1 and daily_streak = the computed streak.
C7_Original ==
    [][\A r \in Slots :
           TriesUpdate(r)
           => profiles' =
                  ProfileRow(profiles.reward_points + loc[r].pointsEarned
                                 - (IF req[r].boost THEN 10 ELSE 0),
                             loc[r].newStreak, loc[r].today,
                             profiles.total_messages + 1)]_vars

\* C7 (amended): an interaction whose profiles.update succeeds sets the
\* stored row to the row it read with reward_points + netDelta,
\* last_message_date = today, total_messages + 1 and daily_streak = the
\* computed streak (which is a change of the stored row by exactly that
\* when no other interaction wrote since the read); an interaction whose
\* profiles.update fails leaves the stored row as it is.
C7_ProfileWrite ==
    [][\A r \in Slots :
           TriesUpdate(r)
           => IF loc'[r].updateError
              THEN profiles' = profiles
              ELSE LET old == loc[r].profile
                       netDelta == loc[r].pointsEarned
                                       - (IF req[r].boost THEN 10 ELSE 0)
                   IN /\ profiles' = ProfileRow(old.reward_points + netDelta,
                                                loc[r].newStreak, loc[r].today,
                                                old.total_messages + 1)
                      /\ old = profiles
                             => /\ profiles'.reward_points
                                       = profiles.reward_points + netDelta
                                /\ profiles'.total_messages
                                       = profiles.total_messages + 1]_vars

C7_Witness ==
    \E r \in Slots :
        /\ Completed(r)
        /\ ~loc[r].updateError
        /\ req[r].boost
        /\ profiles.reward_points = loc[r].profile.reward_points - 9
        /\ profiles.total_messages = loc[r].profile.total_messages + 1
        /\ profiles.last_message_date = loc[r].today

(* ---- C8 ---- *)
\* The ways the LLM call fails: the fetch rejects, the status is not 2xx,
\* the body is not JSON, it has no candidates, its candidate has no content.
LlmFailures == {"reject", "httpError", "notJson", "noCandidates", "noContent"}

LlmFailureMessages ==
    {"error sending request",
     "Gemini API error: 500", "Gemini API error: 503",
     JsonParseError("<html>"),
     "No response from Gemini API",
     "Cannot read properties of undefined (reading 'parts')"}

C8_Inv ==
    /\ \A r \in Slots :
        loc[r].gemini \in LlmFailures
        => /\ pc[r] = "done"
           /\ resp[r].status = 500
           /\ resp[r].body = "error"
           /\ resp[r].error \in LlmFailureMessages
           /\ calls[r] = <<"auth.getUser", "profiles.select", "gemini.fetch">>
           /\ loc[r].computations = 0
    /\ \A r \in Slots :
        loc[r].status \in {"500", "503"}
        => /\ pc[r] \in {"geminiBody", "done"}
           /\ pc[r] = "done"
              => /\ loc[r].gemini = "httpError"
                 /\ resp[r].error = "Gemini API error: " \o loc[r].status

C8_Step ==
    \A r \in Slots :
        (pc[r] \in {"fetch", "geminiBody"} /\ pc'[r] \in {"geminiBody", "done"}
         /\ pc'[r] # pc[r])
        => UNCHANGED tables

\* C8: when the LLM call fails (the fetch rejects, an HTTP error status, a
\* body that is not JSON, no candidates, a candidate without content), the
\* invocation answers with the error envelope, the failing step leaves
\* every table unchanged, and the invocation has made and makes no
\* profiles.update, reward_transactions.insert or messages.insert.
C8_LlmFailureWritesNothing == []C8_Inv /\ [][C8_Step]_vars

\* One invocation got an answer without candidates, another the status 503.
C8_Witness ==
    \E r, q \in Slots :
        /\ pc[r] = "done"
        /\ loc[r].gemini = "noCandidates"
        /\ resp[r].error = "No response from Gemini API"
        /\ pc[q] = "done"
        /\ loc[q].status = "503"
        /\ resp[q] = ErrorResponse(Error("Gemini API error: 503"))
        /\ reward_transactions = EmptyBag /\ messages = EmptyBag

\* The external calls of one invocation, in the order of the handler's text.
FullOrder ==
    <<"auth.getUser", "profiles.select", "gemini.fetch", "profiles.update",
      "reward_transactions.insert", "messages.insert", "messages.insert",
      "messages.select", "conversations.update">>

IsPrefix(s, t) == Len(s) <= Len(t) /\ \A i \in 1..Len(s) : s[i] = t[i]

\* The awaits of the persistence steps.
PersistStages ==
    {"updateProfile", "insertTransaction", "insertUserMessage",
     "insertAiMessage", "selectMessages", "updateTitle"}

(* ---- C9 ---- *)
C9_Inv ==
    \A r \in Slots :
        (loc[r].updateError \/ loc[r].transactionError)
        => /\ Computed(r)
           /\ pc[r] \in (PersistStages \ {"updateProfile"}) \cup {"done"}
           /\ IsPrefix(calls[r], FullOrder)
           /\ pc[r] = "done"
                  => /\ resp[r].status = 200
                     /\ resp[r].body = "result"
                     /\ resp[r].response = loc[r].aiResponse
                     /\ resp[r].pointsEarned = loc[r].pointsEarned
                     /\ resp[r].newStreak = loc[r].newStreak
                     /\ resp[r].totalPoints
                            = loc[r].profile.reward_points + loc[r].pointChange
                     /\ Len(calls[r]) >= 5

C9_Step ==
    \A r \in Slots :
        /\ (TriesUpdate(r) /\ loc'[r].updateError)
               => /\ profiles' = profiles
                  /\ pc'[r] = "insertTransaction"
        /\ (TriesInsert(r) /\ loc'[r].transactionError)
               => /\ reward_transactions' = reward_transactions
                  /\ pc'[r] = IF req[r].conversationId # NoConv
                              THEN "insertUserMessage" ELSE "done"

\* C9: a failed profiles.update or reward_transactions.insert is neither
\* surfaced nor retried: the failed write changes nothing, the invocation
\* goes on with the next step in order, calls each write at most once, and
\* answers 200 with the reply and the computed pointsEarned, newStreak and
\* totalPoints (which then need not match the stored profile or ledger).
C9_WriteFailureNotSurfaced == []C9_Inv /\ [][C9_Step]_vars

C9_Witness ==
    \E r \in Slots :
        /\ pc[r] = "done"
        /\ loc[r].updateError
        /\ ~loc[r].transactionError
        /\ resp[r].status = 200
        /\ resp[r].totalPoints # profiles.reward_points
        /\ resp[r].newStreak # profiles.daily_streak
        /\ InLedger([points_change |-> 6, transaction_type |-> "streak",
                     description |-> <<"Daily streak bonus (", 4, " days)">>])

\* How many times the call `name` occurs in the calls s.
Count(name, s) == Cardinality({i \in 1..Len(s) : s[i] = name})

(* ---- C10 ---- *)
\* The kind and the description the ledger row of invocation r is to carry.
KindDerived(r) ==
    /\ loc[r].transactionType
           = (IF req[r].boost THEN "boost"
              ELSE IF loc[r].pointsEarned > 1 THEN "streak" ELSE "message")
    /\ loc[r].description
           = (IF req[r].boost THEN <<"Boost used for priority response">>
              ELSE IF loc[r].pointsEarned > 1
              THEN <<"Daily streak bonus (", loc[r].newStreak, " days)">>
              ELSE <<"Message sent">>)

\* Invocation r has computed today, pointsEarned, the new streak and the
\* net delta from the profile it read.
PointsComputed(r) ==
    /\ loc[r].gemini = "ok"
    /\ loc[r].today # NoDate
    /\ loc[r].pointsEarned \in {1, 6}
    /\ loc[r].newStreak >= 1
    /\ loc[r].pointChange
           = loc[r].pointsEarned - (IF req[r].boost THEN BoostCost ELSE 0)

C10_Inv ==
    \A r \in Slots :
        /\ IsPrefix(calls[r], FullOrder)
        /\ Len(calls[r]) >= 4 => PointsComputed(r)
        /\ pc[r] \in PersistStages => PointsComputed(r)

C10_Step ==
    /\ (\/ profiles' # profiles
        \/ reward_transactions' # reward_transactions
        \/ messages' # messages
        \/ conversations' # conversations)
           => \/ \E r \in Slots :
                     /\ pc[r] \in PersistStages
                     /\ pc'[r] # pc[r]
                     /\ loc[r].gemini = "ok"
                     /\ loc[r].today # NoDate
              \/ /\ client.insert > 0
                 /\ client'.insert = client.insert - 1
                 /\ conversations' = Append(conversations, NewConversation)
                 /\ UNCHANGED <<profiles, reward_transactions, messages, pc>>
    /\ \A r \in Slots :
           pc[r] \in PersistStages
           => /\ loc'[r].today = loc[r].today
              /\ loc'[r].pointsEarned = loc[r].pointsEarned
              /\ loc'[r].newStreak = loc[r].newStreak
              /\ loc'[r].pointChange = loc[r].pointChange
              /\ loc'[r].profile = loc[r].profile

\* The reward computation of invocation r, the kind and the description of
\* its ledger row included, is complete.
ComputationComplete(r) == PointsComputed(r) /\ KindDerived(r)

\* C10 as stated: the calls are made in the fixed order, no table is
\* written before the LLM call has returned successfully, and the whole
\* reward computation, the kind and the description of the ledger entry
\* included, is complete before the first persistence step begins and does
\* not change during the persistence steps.
C10_Original ==
    /\ []C10_Inv
    /\ [](\A r \in Slots : pc[r] \in PersistStages => ComputationComplete(r))
    /\ [][C10_Step]_vars

\* The kind and the description are derived between the profile write and
\* the ledger write: they are not set while profiles.update is awaited,
\* the step that ends that await sets them from the computed points and
\* streak, and they stay as they are from then on.
C10_KindInv ==
    \A r \in Slots :
        /\ pc[r] = "updateProfile"
               => loc[r].transactionType = "" /\ loc[r].description = <<>>
        /\ pc[r] \in PersistStages \ {"updateProfile"} => KindDerived(r)
        /\ Count("reward_transactions.insert", calls[r]) > 0 => KindDerived(r)

C10_KindStep ==
    \A r \in Slots :
        (pc[r] \in PersistStages \ {"updateProfile"})
        => /\ loc'[r].transactionType = loc[r].transactionType
           /\ loc'[r].description = loc[r].description

\* C10, amended: the external calls of one invocation are a prefix of
\* getUser, profiles.select, fetch, profiles.update,
\* reward_transactions.insert, messages.insert (twice), messages.select,
\* conversations.update; every step of the handler that changes a table is
\* a persistence step of an invocation whose fetch succeeded (the only
\* other change of a table is the insert of a conversation row by the
\* client); today, pointsEarned, the new streak and the net delta are
\* computed before the first persistence step begins and do not change
\* during the persistence steps; the kind and the description of the
\* ledger entry are not: they are derived from those values after
\* profiles.update has resolved and before reward_transactions.insert is
\* called.
C10_CallOrder ==
    /\ []C10_Inv /\ [][C10_Step]_vars
    /\ []C10_KindInv /\ [][C10_KindStep]_vars

\* An invocation made every call of the order and answered 200, and another
\* one awaits its profiles.update with the points computed and the kind of
\* its ledger row not yet derived.
C10_Witness ==
    \E r, q \in Slots :
        /\ pc[r] = "done"
        /\ calls[r] = FullOrder
        /\ resp[r].status = 200
        /\ KindDerived(r)
        /\ pc[q] = "updateProfile"
        /\ PointsComputed(q)
        /\ ~KindDerived(q)

(* ---- C11 ---- *)
\* Invocation r handled a chat request (a POST whose body parsed) to its end.
ChatDone(r) == pc[r] = "done" /\ req[r].method = "POST" /\ req[r].bodyOk

\* C11 as stated: every chat interaction, whatever its path, performs
\* exactly one reward computation, at most one profiles.update and at most
\* one reward_transactions.insert.
C11_Original ==
    \A r \in Slots :
        ChatDone(r)
        => /\ loc[r].computations = 1
           /\ Count("profiles.update", calls[r]) <= 1
           /\ Count("reward_transactions.insert", calls[r]) <= 1

\* C11, amended: an interaction performs at most one reward computation, at
\* most one profiles.update and at most one reward_transactions.insert on
\* every path; the computation and the update happen exactly once when the
\* interaction succeeds, and not at all when it ends in an error (a
\* rejection or a failure of an earlier step).
C11_AtMostOnce ==
    \A r \in Slots :
        /\ loc[r].computations <= 1
        /\ Count("profiles.update", calls[r]) <= 1
        /\ Count("reward_transactions.insert", calls[r]) <= 1
        /\ Count("profiles.update", calls[r]) <= loc[r].computations
        /\ Count("reward_transactions.insert", calls[r])
               <= Count("profiles.update", calls[r])
        /\ (ChatDone(r) /\ resp[r].status = 200)
           => /\ loc[r].computations = 1
              /\ Count("profiles.update", calls[r]) = 1
        /\ (ChatDone(r) /\ resp[r].status # 200)
           => /\ loc[r].computations = 0
              /\ Count("profiles.update", calls[r]) = 0
              /\ Count("reward_transactions.insert", calls[r]) = 0

\* One interaction succeeded after a failed profiles.update, and another
\* one was rejected without any computation.
C11_Witness ==
    \E r, q \in Slots :
        /\ ChatDone(r) /\ resp[r].status = 200
        /\ loc[r].updateError
        /\ loc[r].computations = 1
        /\ Count("profiles.update", calls[r]) = 1
        /\ Count("reward_transactions.insert", calls[r]) = 1
        /\ ChatDone(q) /\ resp[q].status = 500
        /\ loc[q].computations = 0

(* ---- C12 ---- *)
\* A boosted interaction has been charged: its row is in the ledger.
BoostCharged == \E row \in BagToSet(reward_transactions) : row.transaction_type = "boost"

\* The values pointsEarned can take: the base point, with or without the
\* streak bonus.
EarnedAmounts == {BasePoints, BasePoints + StreakBonus}

\* The balances stored after n boosted interactions that run one after
\* another from a stored balance of points: each reads the balance the
\* previous one wrote, passes the balance check, and writes its snapshot
\* plus its pointChange.
RECURSIVE BoostedBalances(_, _)
BoostedBalances(points, n) ==
    IF n = 0 THEN {points}
    ELSE IF InsufficientPoints(TRUE, [reward_points |-> points]) THEN {}
    ELSE UNION { BoostedBalances(points + PointChange(earned, TRUE), n - 1) :
                 earned \in EarnedAmounts }

\* Some sequence of boosts from a stored balance of points ends below 0.
\* An accepted boost lowers the balance, so no sequence is longer than
\* points + 1.
DrivenNegative(points) ==
    \E n \in 1..(points + 1) :
        \E balance \in BoostedBalances(points, n) : balance < 0

\* C12 as stated: starting from a stored rewardPoints >= 0, there is a
\* sequence of boosted interactions, each passing the balance check, after
\* which the stored rewardPoints is below 0.
C12_Original ==
    profiles.reward_points >= 0 => DrivenNegative(profiles.reward_points)

\* C12, amended: repeated boosting never drives rewardPoints below 0. The
\* stored balance and every snapshot a handler holds are at least 0, and
\* no sequence of boosts from the stored balance ends below 0; a boost that
\* got its reply read a snapshot of at least 10 and writes that snapshot +
\* pointsEarned - 10, which is at least 1; a boost whose snapshot is below
\* 10 is rejected after the profile read, with no computation and no
\* further call.
C12_BoostKeepsBalanceNonNegative ==
    /\ profiles.reward_points >= 0
    /\ ~DrivenNegative(profiles.reward_points)
    /\ \A r \in Slots :
        /\ loc[r].profile.reward_points >= 0
        /\ (req[r].boost /\ Computed(r))
           => /\ loc[r].profile.reward_points >= BoostCost
              /\ (loc[r].profile.reward_points + loc[r].pointChange) >= 1
              /\ ProfileUpdate(loc[r]).reward_points >= 1
        /\ (req[r].boost /\ ProfileLoaded(r) /\ loc[r].profile.reward_points < BoostCost)
           => /\ ~Computed(r)
              /\ pc[r] = "done"
              /\ calls[r] = <<"auth.getUser", "profiles.select">>
              /\ resp[r].error = "Insufficient points for boost. Need 10 points."

\* Boosts were charged until the balance fell below the cost of one, and the
\* next boost was rejected with the balance still positive.
C12_Witness ==
    \E r \in Slots :
        /\ BagCardinality(reward_transactions) >= 2
        /\ BoostCharged
        /\ profiles.reward_points \in 0..(BoostCost - 1)
        /\ pc[r] = "done"
        /\ resp[r].error = "Insufficient points for boost. Need 10 points."

(* ---- C13 ---- *)
\* Invocations r and q raced: both computed from the same profile snapshot,
\* both wrote the profile row, and both returned.
Raced(r, q) ==
    /\ r # q
    /\ Completed(r) /\ Completed(q)
    /\ loc[r].profile = loc[q].profile
    /\ ~loc[r].updateError /\ ~loc[q].updateError

\* C13: nothing protects the profile's read-then-write. When two
\* interactions read the same snapshot and both write the profile, the row
\* that remains is the write of one of them alone: totalMessages is one
\* above the snapshot and rewardPoints has moved by one interaction's delta,
\* while the ledger holds the entry of each interaction whose insert
\* succeeded.
C13_LostUpdate ==
    \A r, q \in Slots :
        Raced(r, q)
        => /\ profiles \in {ProfileUpdate(loc[r]), ProfileUpdate(loc[q])}
           /\ profiles.total_messages = loc[r].profile.total_messages + 1
           /\ (profiles.reward_points - loc[r].profile.reward_points)
                  \in {loc[r].pointChange, loc[q].pointChange}
           /\ (~loc[r].transactionError /\ ~loc[q].transactionError)
              => /\ BagCardinality(reward_transactions) >= 2
                 /\ InLedger(TransactionRow(loc[r]))
                 /\ InLedger(TransactionRow(loc[q]))

\* A boosted and a plain interaction raced from one snapshot: two ledger
\* entries are recorded, and the profile shows the plain interaction only.
C13_Witness ==
    \E r, q \in Slots :
        /\ Raced(r, q)
        /\ req[r].boost /\ ~req[q].boost
        /\ ~loc[r].transactionError /\ ~loc[q].transactionError
        /\ BagCardinality(reward_transactions) = 2
        /\ profiles = ProfileUpdate(loc[q])
        /\ profiles.total_messages = loc[q].profile.total_messages + 1
        /\ profiles.reward_points
               # loc[q].profile.reward_points + loc[r].pointChange + loc[q].pointChange

(* ---- C14 ---- *)
\* The messages the handler throws before it reads the profile.
EarlyRejections ==
    {"No messages provided", "No authorization header", "Authentication failed"}

\* The messages of every throw of the handler and of req.json().
Failures ==
    EarlyRejections \cup
    {JsonParseError(""), JsonParseError("not json"),
     "Failed to fetch user profile",
     "Insufficient points for boost. Need 10 points.",
     "Google AI API key not configured"} \cup LlmFailureMessages

\* The class of the error that carries the message: the runtime's
\* SyntaxError and TypeError, or the Error the handler throws itself.
ThrownBy(message) ==
    IF message \in {JsonParseError(""), JsonParseError("not json"),
                    JsonParseError("<html>")}
    THEN "SyntaxError"
    ELSE IF message \in {"error sending request",
                         "Cannot read properties of undefined (reading 'parts')"}
    THEN "TypeError"
    ELSE "Error"

\* This step ends invocation r with an error.
Fails(r) ==
    /\ pc'[r] = "done"
    /\ pc[r] # "done" \/ received' # received
    /\ resp'[r].body = "error"

C14_Inv ==
    \A r \in Slots :
        \* a request without messages, or without the header, is rejected
        /\ (ChatDone(r) /\ Len(req[r].messages) = 0)
           => resp[r].error = "No messages provided"
        /\ (ChatDone(r) /\ Len(req[r].messages) > 0 /\ ~req[r].authHeader)
           => resp[r].error = "No authorization header"
        \* an early rejection made no call but, at most, auth.getUser
        /\ resp[r].error \in {"No messages provided", "No authorization header"}
           => calls[r] = <<>>
        /\ resp[r].error = "Authentication failed"
           => calls[r] = <<"auth.getUser">>
        \* every failure is the envelope {error, details} with status 500
        /\ (pc[r] = "done" /\ req[r].method = "POST")
           => \/ resp[r] = SuccessResponse(loc[r], req[r].boost) /\ Computed(r)
              \/ /\ resp[r].status = 500
                 /\ resp[r].body = "error"
                 /\ resp[r].error \in Failures
                 /\ resp[r].details
                        = <<ThrownBy(resp[r].error), ": ", resp[r].error>>
                 /\ resp[r] = ErrorResponse([name |-> ThrownBy(resp[r].error),
                                             message |-> resp[r].error])
        /\ resp[r].body = "error" => resp[r].status \notin 200..299

C14_Step ==
    \A r \in Slots :
        /\ Fails(r) => UNCHANGED tables
        \* the token that fails authentication
        /\ (pc[r] = "getUser" /\ pc'[r] = "done")
           => /\ resp'[r] = ErrorResponse(Error("Authentication failed"))
              /\ calls'[r] = <<"auth.getUser">>

\* C14: a request with no messages, with no Authorization header or with a
\* token that fails authentication is rejected with the error envelope and
\* status 500 before any profile read, LLM call or write; and every failure
\* of the handler returns that envelope, with no table changed by the
\* failing step.
C14_RejectedWithEnvelope == []C14_Inv /\ [][C14_Step]_vars

\* One request failed authentication and another was sent without the
\* header; no table was written.
C14_Witness ==
    \E r, q \in Slots :
        /\ pc[r] = "done" /\ resp[r] = ErrorResponse(Error("Authentication failed"))
        /\ calls[r] = <<"auth.getUser">>
        /\ pc[q] = "done" /\ resp[q] = ErrorResponse(Error("No authorization header"))
        /\ Len(req[q].messages) > 0
        /\ calls[q] = <<>>
        /\ reward_transactions = EmptyBag /\ messages = EmptyBag
        /\ profiles \in InitProfiles

(* ---- C15 ---- *)
\* Invocation r returned the success response.
Succeeded(r) == pc[r] = "done" /\ resp[r].body = "result"

\* C15: in every success response pointsSpent is 10 for a boosted request
\* and 0 otherwise, pointsEarned is 1 or 6, newStreak is the daily_streak
\* sent in the profile update, and totalPoints is the snapshot's
\* reward_points + pointsEarned - pointsSpent, the reward_points sent in the
\* profile update.
C15_SuccessResponseFields ==
    \A r \in Slots :
        Succeeded(r)
        => /\ resp[r].status = 200
           /\ resp[r].pointsSpent = (IF req[r].boost THEN 10 ELSE 0)
           /\ resp[r].pointsEarned \in {1, 6}
           /\ resp[r].newStreak = ProfileUpdate(loc[r]).daily_streak
           /\ resp[r].totalPoints
                  = loc[r].profile.reward_points
                    + resp[r].pointsEarned - resp[r].pointsSpent
           /\ resp[r].totalPoints = ProfileUpdate(loc[r]).reward_points

\* A boosted request on a consecutive day succeeded: 6 points earned, 10
\* spent, and the totalPoints of the response is the stored balance.
C15_Witness ==
    \E r \in Slots :
        /\ Succeeded(r)
        /\ req[r].boost
        /\ resp[r].pointsEarned = 6 /\ resp[r].pointsSpent = 10
        /\ resp[r].totalPoints = loc[r].profile.reward_points - 4
        /\ resp[r].newStreak = loc[r].profile.daily_streak + 1
        /\ ~loc[r].updateError
        /\ profiles.reward_points = resp[r].totalPoints

(* ---- C16 ---- *)
\* The stages of the handler that follow the reward transaction block.
AfterTransaction ==
    {"insertUserMessage", "insertAiMessage", "selectMessages", "updateTitle"}

\* C16: the net point delta of an interaction is one of 1, 6, -9, -4 and
\* never 0, so the guard pointChange !== 0 never skips the ledger entry:
\* an interaction that has sent its profile update is about to attempt its
\* reward_transactions insert or has attempted exactly one.
C16_DeltaNeverZero ==
    \A r \in Slots :
        /\ Computed(r)
           => /\ loc[r].pointChange \in {1, 6, -9, -4}
              /\ loc[r].pointChange # 0
              /\ loc[r].pointChange = loc[r].pointsEarned - (IF req[r].boost THEN 10 ELSE 0)
        /\ Count("profiles.update", calls[r]) = 1
           => \/ /\ pc[r] = "insertTransaction"
                 /\ Count("reward_transactions.insert", calls[r]) = 0
              \/ /\ pc[r] \in AfterTransaction \cup {"done"}
                 /\ Count("reward_transactions.insert", calls[r]) = 1
        /\ Succeeded(r) => Count("reward_transactions.insert", calls[r]) = 1

\* A boost on a day that breaks the streak (-9) and a plain message on the
\* day after (6) both attempted their ledger insert.
C16_Witness ==
    \E r, q \in Slots :
        /\ Succeeded(r) /\ loc[r].pointChange = -9
        /\ Succeeded(q) /\ loc[q].pointChange = 6
        /\ Count("reward_transactions.insert", calls[r]) = 1
        /\ Count("reward_transactions.insert", calls[q]) = 1

(* ---- C17 ---- *)
RECURSIVE SumOfChanges(_, _)
\* The sum of points_change over the rows `rows` of the bag `ledger`.
SumOfChanges(rows, ledger) ==
    IF rows = {} THEN 0
    ELSE LET row == CHOOSE x \in rows : TRUE
         IN row.points_change * CopiesIn(row, ledger)
            + SumOfChanges(rows \ {row}, ledger)

LedgerSum == SumOfChanges(BagToSet(reward_transactions), reward_transactions)

\* C17: when the interactions of a user run one after another and no write
\* fails, then after any sequence of them the stored reward_points minus
\* its initial value is the sum of points_change over the ledger, and
\* total_messages minus its initial value is the number of completed
\* interactions (which is also the number of ledger entries).
C17_LedgerAccountsForBalance ==
    Quiescent
    => /\ profiles.reward_points - history.initial.reward_points = LedgerSum
       /\ profiles.total_messages - history.initial.total_messages
              = history.completed
       /\ BagCardinality(reward_transactions) = history.completed

\* Three interactions completed one after another, a boosted one among
\* them, and the balance moved by the sum of the three ledger entries.
C17_Witness ==
    /\ Quiescent
    /\ history.completed = 3
    /\ BoostCharged
    /\ BagCardinality(reward_transactions) = 3
    /\ LedgerSum < 0
    /\ profiles.reward_points = history.initial.reward_points + LedgerSum
    /\ profiles.total_messages = history.initial.total_messages + 3

(* ---- C18 ---- *)
\* The profile as created at signup: no last_message_date, daily_streak 0.
FreshProfile(p) == p.last_message_date = NoDate /\ p.daily_streak = 0

\* C18: starting from a fresh profile, after any sequence of successful
\* interactions that run one after another as the clock advances, a stored
\* last_message_date comes with a daily_streak of at least 1, and the
\* daily_streak is at most the number of distinct days on which an
\* interaction completed.
C18_StreakBoundedByDays ==
    FreshProfile(history.initial)
    => /\ profiles.last_message_date # NoDate => profiles.daily_streak >= 1
       /\ profiles.last_message_date = NoDate => profiles.daily_streak = 0
       /\ Quiescent => profiles.daily_streak <= Cardinality(history.days)
       /\ Quiescent /\ history.completed > 0
          => profiles.last_message_date \in history.days

\* Three interactions completed from a fresh profile, on two consecutive
\* days: the streak is 2.
C18_Witness ==
    /\ FreshProfile(history.initial)
    /\ Quiescent
    /\ history.completed = 3
    /\ Cardinality(history.days) = 2
    /\ profiles.daily_streak = 2
    /\ profiles.last_message_date # NoDate

====
